---- MODULE Spec2Model ----
(***************************************************************************)
(* Helpdesk ticket assignment engine of eventbridge_plus:                  *)
(*   helpdesk.py        ticket lifecycle state machine, routes, replies    *)
(*   assign_request.py  technician directory, workload scorers, assigners  *)
(* The ticket store is the help_requests table, the directory the users    *)
(* table.  Every handler is one action; the store calls a handler makes    *)
(* can fail at the places the code can raise.                              *)
(***************************************************************************)
EXTENDS Integers, Sequences, FiniteSets, TLC

\* ---------------------------------------------------------------- bounds
NumTechs ==
  2
NumTickets ==
  2
MaxNow ==
  1
\* rows of the store the state machine is checked on by itself
SMTickets ==
  1

\* rows of the store the batch assigners are checked on
BatchTickets ==
  3

\* ------------------------------------------------------------- constants
\* float('inf') returned by calculate_technician_workload on a failed read,
\* and the initial lowest_workload of find_least_busy_technician.  Scores
\* are kept as integers scaled by ScoreScale, INF is above every real score.
INF ==
  1000000
\* sentinel count returned by get_technician_current_workload on a failed
\* read, and the initial lowest_workload of simple_auto_assign
SIMPLE_SENTINEL ==
  999
\* scores are stored times 20: the status weight 0.5 takes a factor 2, the
\* time factor 0.1 * hours a factor 10
ScoreScale ==
  2 * 10

NULL ==
  0
\* a timestamp column that holds NULL
NullTime ==
  0 - 1
None ==
  "None"
Techs ==
  1 .. NumTechs
TicketIds ==
  1 .. NumTickets
\* the participant who owns the tickets (help_requests.user_id)
Owner ==
  NumTechs + 1
Roles ==
  {"super_admin", "support_technician"}
HELP_REQUEST_PRIORITIES ==
  {"low", "medium", "high", "urgent"}
HELP_REQUEST_STATUSES ==
  {"new", "assigned", "blocked", "solved"}
\* the priorities the operations are called with
PriorityInputs ==
  {"high", "medium"}
\* places where a store call of a handler can raise
Faults ==
  {"none", "directory", "read", "post_update"}
\* the same, and the create_noti calls of a transition raising
NotiFaults ==
  Faults \cup {"notify"}

VARIABLES
  role,       \* users.platform_role of each technician
  active,     \* users.status = 'active' of each technician
  tickets,    \* help_requests rows: status "none" is a row that does not exist
  now,        \* wall clock, in hours
  last,       \* the call made by the last step and what it returned
  calls       \* the calls in progress of the concurrent callers

vars ==
  <<role, active, tickets, now, last, calls>>

NoTicket ==
  [status |-> "none", assigned_to |-> NULL, priority |-> "medium",
   updated_at |-> 0, resolved_at |-> NullTime]

\* what a step records of its call: the operation, its arguments, the faults
\* injected into its store calls, and what it returned (failed: the per-ticket
\* failures a batch reports; snapshot and steps: the scores a distribute run
\* read and what it did for each ticket, in the order of the run; notes: the
\* create_noti calls of a transition; bypass: a transition was called with
\* bypass_validation = True)
NoCall ==
  [op |-> "init", ticket |-> 0, status |-> None, priority |-> None,
   ok |-> FALSE, tech |-> NULL, msg |-> "", fault |-> "none", wfail |-> {},
   count |-> 0, failed |-> {}, snapshot |-> <<>>, steps |-> <<>>,
   caller |-> 0, notes |-> {}, bypass |-> FALSE]

\* the request handlers that run at the same time, each on its own
\* connection to the store
Callers ==
  {1, 2}

\* the local variables of a call in progress: where it stands (pc), the
\* request and priority it was called with, the technician it found, the
\* old_assigned_to its transition read, and for a distribute run the pool,
\* the scores it read, the sorted requests still to take and the counters,
\* turns and failures so far
IdleCall ==
  [pc |-> "idle", op |-> "none", ticket |-> 0, priority |-> None,
   tech |-> NULL, ok |-> FALSE, old_assigned_to |-> NULL,
   technicians |-> <<>>, snapshot |-> <<>>,
   queue |-> <<>>, priorities |-> <<>>, new_assignments |-> <<>>,
   steps |-> <<>>, assigned_count |-> 0, failed |-> {}]

\* ------------------------------------------------- lifecycle state machine
\* a table that also lets a new ticket be blocked
get_valid_status_transitions_blocked(current_status) ==
  CASE current_status = "new" -> {"assigned", "blocked", "solved"}
    [] current_status = "assigned" -> {"new", "blocked", "solved"}
    [] current_status = "blocked" -> {"new", "assigned", "solved"}
    [] current_status = "solved" -> {}
    [] OTHER -> {}

get_valid_status_transitions(current_status) ==
  CASE current_status = "new" -> {"assigned", "solved"}
    [] current_status = "assigned" -> {"new", "blocked", "solved"}
    [] current_status = "blocked" -> {"new", "assigned", "solved"}
    [] current_status = "solved" -> {}
    [] OTHER -> {}

is_valid_status_transition(current_status, new_status) ==
  new_status \in get_valid_status_transitions(current_status)

\* a validation that forgets the solved branch
validate_status_transition_nosolved(current_status, new_status) ==
  IF current_status = new_status THEN None
  ELSE IF ~is_valid_status_transition(current_status, new_status)
          /\ current_status # "solved"
       THEN "invalid transition"
       ELSE None

\* None when the transition is valid, an error otherwise
validate_status_transition(current_status, new_status) ==
  IF current_status = new_status THEN None
  ELSE IF ~is_valid_status_transition(current_status, new_status)
       THEN IF current_status = "solved" THEN "already solved"
            ELSE "invalid transition"
       ELSE None

\* The UPDATE of update_help_request_status: one atomic single-row write
\* that is visible as soon as it is issued.
StoreUpdate(tk, request_id, fields) ==
  [tk EXCEPT ![request_id] = fields]

\* what a handler returns when it returns before the UPDATE
NoUpdate(tk) ==
  [ok |-> FALSE, tickets |-> tk, notes |-> {}, bypass |-> FALSE]

\* one create_noti call: the user it is for, its title and its force flag
Noti(user_id, title, force) ==
  [user_id |-> user_id, title |-> title, force |-> force]

\* the create_noti call update_help_request_status makes for a status change
StatusNotes(old, status) ==
  IF old.status # status
  THEN {Noti(Owner, "Help Request Status Updated", FALSE)}
  ELSE {}

\* the calls it makes for an assignment change
AssignmentNotes(old, assigned_to) ==
  IF old.assigned_to = assigned_to THEN {}
  ELSE IF assigned_to # NULL
  THEN {Noti(assigned_to, "New Task Assignment", TRUE),
        Noti(Owner, "Help Request Assigned", FALSE)}
  ELSE (IF old.assigned_to # NULL
        THEN {Noti(old.assigned_to, "Request Unassigned", TRUE)} ELSE {})
       \cup {Noti(Owner, "Help Request Unassigned", FALSE)}

\* the calls it makes when the priority is raised to high
EscalationNotes(old, assigned_to, priority) ==
  IF priority # None /\ old.priority # priority /\ priority = "high"
  THEN (IF assigned_to # NULL
        THEN {Noti(assigned_to, "Escalated Help Request", TRUE)} ELSE {})
       \cup (IF old.assigned_to # NULL /\ old.assigned_to # assigned_to
             THEN {Noti(old.assigned_to, "Request Escalated and Reassigned",
                        TRUE)}
             ELSE {})
  ELSE {}

\* an UPDATE that writes assigned_to only when a technician is given
update_help_request_status_keep(tk, clock, request_id, status, assigned_to, priority, bypass_validation, fault) ==
  IF fault = "read" \/ tk[request_id].status = "none"
  THEN [NoUpdate(tk) EXCEPT !.bypass = bypass_validation]
  ELSE IF ~bypass_validation
          /\ validate_status_transition(tk[request_id].status, status) # None
  THEN [NoUpdate(tk) EXCEPT !.bypass = bypass_validation]
  ELSE LET old == tk[request_id]
           fields == [old EXCEPT !.status = status,
                                 !.updated_at = clock,
                                 !.assigned_to = IF assigned_to # NULL
                                                 THEN assigned_to ELSE @,
                                 !.priority = IF priority # None THEN priority
                                              ELSE @]
           written == StoreUpdate(tk, request_id, fields)
       IN  IF fault = "post_update" /\ old.assigned_to # assigned_to
              /\ assigned_to # NULL
           THEN [ok |-> FALSE, tickets |-> written,
                 notes |-> StatusNotes(old, status),
                 bypass |-> bypass_validation]
           ELSE [ok |-> TRUE, tickets |-> written,
                 notes |-> StatusNotes(old, status)
                           \cup AssignmentNotes(old, assigned_to)
                           \cup EscalationNotes(old, assigned_to, priority),
                 bypass |-> bypass_validation]

\* a transition that lets a failure of create_noti reach its outer handler
update_help_request_status_strict(tk, clock, request_id, status, assigned_to, priority, bypass_validation, fault) ==
  IF fault = "read" \/ tk[request_id].status = "none"
  THEN [NoUpdate(tk) EXCEPT !.bypass = bypass_validation]
  ELSE IF ~bypass_validation
          /\ validate_status_transition(tk[request_id].status, status) # None
  THEN [NoUpdate(tk) EXCEPT !.bypass = bypass_validation]
  ELSE LET old == tk[request_id]
           fields == [old EXCEPT !.status = status,
                                 !.updated_at = clock,
                                 !.assigned_to = assigned_to,
                                 !.priority = IF priority # None THEN priority
                                              ELSE @,
                                 !.resolved_at = IF status = "resolved"
                                                 THEN clock ELSE @]
           written == StoreUpdate(tk, request_id, fields)
           notes == StatusNotes(old, status)
                    \cup AssignmentNotes(old, assigned_to)
                    \cup EscalationNotes(old, assigned_to, priority)
       IN  IF \/ fault = "post_update" /\ old.assigned_to # assigned_to
                 /\ assigned_to # NULL
              \/ fault = "notify" /\ notes # {}
           THEN [ok |-> FALSE, tickets |-> written, notes |-> notes,
                 bypass |-> bypass_validation]
           ELSE [ok |-> TRUE, tickets |-> written, notes |-> notes,
                 bypass |-> bypass_validation]

\* The row is read, the transition validated unless bypassed, the UPDATE
\* issued, and then the notifications are sent, each create_noti call inside
\* its own try/except: with the fault "notify" every one of them raises.
\* The SELECT of the new assignee's name is outside those (fault
\* "post_update"): when it raises, the calls after it are not made.
update_help_request_status(tk, clock, request_id, status, assigned_to, priority, bypass_validation, fault) ==
  IF fault = "read" \/ tk[request_id].status = "none"
  THEN [NoUpdate(tk) EXCEPT !.bypass = bypass_validation]
  ELSE IF ~bypass_validation
          /\ validate_status_transition(tk[request_id].status, status) # None
  THEN [NoUpdate(tk) EXCEPT !.bypass = bypass_validation]
  ELSE LET old == tk[request_id]
           fields == [old EXCEPT !.status = status,
                                 !.updated_at = clock,
                                 !.assigned_to = assigned_to,
                                 !.priority = IF priority # None THEN priority
                                              ELSE @,
                                 !.resolved_at = IF status = "resolved"
                                                 THEN clock ELSE @]
           written == StoreUpdate(tk, request_id, fields)
       IN  IF fault = "post_update" /\ old.assigned_to # assigned_to
              /\ assigned_to # NULL
           THEN [ok |-> FALSE, tickets |-> written,
                 notes |-> StatusNotes(old, status),
                 bypass |-> bypass_validation]
           ELSE [ok |-> TRUE, tickets |-> written,
                 notes |-> StatusNotes(old, status)
                           \cup AssignmentNotes(old, assigned_to)
                           \cup EscalationNotes(old, assigned_to, priority),
                 bypass |-> bypass_validation]

\* ---------------------------------------------------- technician directory
RECURSIVE SortedIds(_)
SortedIds(S) ==
  IF S = {} THEN <<>>
  ELSE LET m == CHOOSE x \in S : \A y \in S : x <= y
       IN  <<m>> \o SortedIds(S \ {m})

\* a directory that ignores the priority
get_available_technicians_anyrole(priority, fault) ==
  IF fault = "directory" THEN <<>>
  ELSE SortedIds({u \in Techs : role[u] \in Roles /\ active[u]})

\* a directory that forgets the status = 'active' filter
get_available_technicians_inactive(priority, fault) ==
  IF fault = "directory" THEN <<>>
  ELSE IF priority = "high"
  THEN SortedIds({u \in Techs : role[u] = "super_admin"})
  ELSE SortedIds({u \in Techs : role[u] \in Roles})

get_available_technicians(priority, fault) ==
  IF fault = "directory" THEN <<>>
  ELSE IF priority = "high"
  THEN SortedIds({u \in Techs : role[u] = "super_admin" /\ active[u]})
  ELSE SortedIds({u \in Techs : role[u] \in Roles /\ active[u]})

\* --------------------------------------------------------- workload scorers
PRIORITY_WEIGHTS(p) ==
  CASE p = "urgent" -> 4
    [] p = "medium" -> 2
    [] p = "low" -> 1
    [] OTHER -> 1

\* a weight table in which a blocked ticket weighs as much as an assigned one
STATUS_WEIGHTS_flat(s) ==
  CASE s = "assigned" -> 2
    [] s = "blocked" -> 2
    [] OTHER -> 2

\* twice the status weight: assigned 1.0, blocked 0.5
STATUS_WEIGHTS(s) ==
  CASE s = "assigned" -> 2
    [] s = "blocked" -> 1
    [] OTHER -> 2

ActiveLoad(tk, technician_id) ==
  {r \in DOMAIN tk : tk[r].assigned_to = technician_id
                     /\ tk[r].status \in {"assigned", "blocked"}}

get_technician_current_workload(tk, technician_id, wfail) ==
  IF technician_id \in wfail THEN SIMPLE_SENTINEL
  ELSE Cardinality(ActiveLoad(tk, technician_id))

\* a sum whose time factor stays 1.0 however old the ticket is
RECURSIVE SumWeights_notime(_, _, _)
SumWeights_notime(tk, clock, S) ==
  IF S = {} THEN 0
  ELSE LET r == CHOOSE x \in S : TRUE
       IN  PRIORITY_WEIGHTS(tk[r].priority) * STATUS_WEIGHTS(tk[r].status)
             * 10
           + SumWeights_notime(tk, clock, S \ {r})

RECURSIVE SumWeights(_, _, _)
SumWeights(tk, clock, S) ==
  IF S = {} THEN 0
  ELSE LET r == CHOOSE x \in S : TRUE
           \* ten times the time factor 1.0 + 0.1 * hours
           time_factor == 10 + (clock - tk[r].updated_at)
       IN  PRIORITY_WEIGHTS(tk[r].priority) * STATUS_WEIGHTS(tk[r].status)
             * time_factor
           + SumWeights(tk, clock, S \ {r})

calculate_technician_workload(tk, clock, technician_id, wfail) ==
  IF technician_id \in wfail THEN INF
  ELSE SumWeights(tk, clock, ActiveLoad(tk, technician_id))

\* the loop with <= in place of <: the last of the least busy wins
RECURSIVE LeastBusyFrom_lastwins(_, _, _, _, _, _, _)
LeastBusyFrom_lastwins(pool, i, tk, clock, wfail, best_technician, lowest_workload) ==
  IF i > Len(pool) THEN [technician |-> best_technician,
                         workload |-> lowest_workload]
  ELSE LET workload == calculate_technician_workload(tk, clock, pool[i], wfail)
       IN  IF workload <= lowest_workload /\ workload < INF
           THEN LeastBusyFrom_lastwins(pool, i + 1, tk, clock, wfail, pool[i],
                                       workload)
           ELSE LeastBusyFrom_lastwins(pool, i + 1, tk, clock, wfail,
                                       best_technician, lowest_workload)

\* the loop of find_least_busy_technician over the pool from position i on
RECURSIVE LeastBusyFrom(_, _, _, _, _, _, _)
LeastBusyFrom(pool, i, tk, clock, wfail, best_technician, lowest_workload) ==
  IF i > Len(pool) THEN [technician |-> best_technician,
                         workload |-> lowest_workload]
  ELSE LET workload == calculate_technician_workload(tk, clock, pool[i], wfail)
       IN  IF workload < lowest_workload
           THEN LeastBusyFrom(pool, i + 1, tk, clock, wfail, pool[i], workload)
           ELSE LeastBusyFrom(pool, i + 1, tk, clock, wfail, best_technician,
                              lowest_workload)

find_least_busy_technician(tk, clock, priority, fault, wfail) ==
  LET available_technicians == get_available_technicians(priority, fault)
  IN  IF available_technicians = <<>>
      THEN [technician |-> NULL, workload |-> None]
      ELSE LeastBusyFrom(available_technicians, 1, tk, clock, wfail, NULL, INF)

\* ------------------------------------------------------ single assignment
\* an assigner that reports the technician but does not pass it on
auto_assign_request_unpassed(tk, clock, request_id, priority, fault, wfail) ==
  LET found == find_least_busy_technician(tk, clock, priority, fault, wfail)
  IN  IF found.technician = NULL
      THEN [ok |-> FALSE, tech |-> NULL,
            msg |-> "No available technicians found", tickets |-> tk]
      ELSE LET r == update_help_request_status(tk, clock, request_id,
                      "assigned", NULL, priority, FALSE, fault)
           IN  IF r.ok
               THEN [ok |-> TRUE, tech |-> found.technician,
                     msg |-> "Auto-assigned", tickets |-> r.tickets]
               ELSE [ok |-> FALSE, tech |-> NULL,
                     msg |-> "Failed to update request status",
                     tickets |-> r.tickets]

auto_assign_request(tk, clock, request_id, priority, fault, wfail) ==
  LET found == find_least_busy_technician(tk, clock, priority, fault, wfail)
  IN  IF found.technician = NULL
      THEN [ok |-> FALSE, tech |-> NULL,
            msg |-> "No available technicians found", tickets |-> tk]
      ELSE LET r == update_help_request_status(tk, clock, request_id,
                      "assigned", found.technician, priority, FALSE, fault)
           IN  IF r.ok
               THEN [ok |-> TRUE, tech |-> found.technician,
                     msg |-> "Auto-assigned", tickets |-> r.tickets]
               ELSE [ok |-> FALSE, tech |-> NULL,
                     msg |-> "Failed to update request status",
                     tickets |-> r.tickets]

\* the loop with <= in place of <: the last of the least loaded wins
RECURSIVE SimpleLeastBusyFrom_lastwins(_, _, _, _, _, _)
SimpleLeastBusyFrom_lastwins(technicians, i, tk, wfail, best_technician, lowest_workload) ==
  IF i > Len(technicians) THEN [technician |-> best_technician,
                                workload |-> lowest_workload]
  ELSE LET current_workload ==
             get_technician_current_workload(tk, technicians[i], wfail)
       IN  IF current_workload <= lowest_workload
              /\ current_workload < SIMPLE_SENTINEL
           THEN SimpleLeastBusyFrom_lastwins(technicians, i + 1, tk, wfail,
                                             technicians[i], current_workload)
           ELSE SimpleLeastBusyFrom_lastwins(technicians, i + 1, tk, wfail,
                                             best_technician, lowest_workload)

\* the loop of simple_auto_assign over the pool from position i on
RECURSIVE SimpleLeastBusyFrom(_, _, _, _, _, _)
SimpleLeastBusyFrom(technicians, i, tk, wfail, best_technician, lowest_workload) ==
  IF i > Len(technicians) THEN [technician |-> best_technician,
                                workload |-> lowest_workload]
  ELSE LET current_workload ==
             get_technician_current_workload(tk, technicians[i], wfail)
       IN  IF current_workload < lowest_workload
           THEN SimpleLeastBusyFrom(technicians, i + 1, tk, wfail,
                                    technicians[i], current_workload)
           ELSE SimpleLeastBusyFrom(technicians, i + 1, tk, wfail,
                                    best_technician, lowest_workload)

simple_auto_assign(tk, clock, request_id, priority, fault, wfail) ==
  LET technicians == get_available_technicians(priority, fault)
  IN  IF technicians = <<>>
      THEN [ok |-> FALSE, tech |-> NULL,
            msg |-> "No available technicians found", tickets |-> tk]
      ELSE LET found == SimpleLeastBusyFrom(technicians, 1, tk, wfail, NULL,
                                            SIMPLE_SENTINEL)
           IN  IF found.technician = NULL
               THEN [ok |-> FALSE, tech |-> NULL,
                     msg |-> "No suitable technician found", tickets |-> tk]
               ELSE LET r == update_help_request_status(tk, clock, request_id,
                               "assigned", found.technician, priority, FALSE,
                               fault)
                    IN  IF r.ok
                        THEN [ok |-> TRUE, tech |-> found.technician,
                              msg |-> "Assigned", tickets |-> r.tickets]
                        ELSE [ok |-> FALSE, tech |-> NULL,
                              msg |-> "Failed to update request status",
                              tickets |-> r.tickets]

\* a creation that auto-assigns the tickets of priority high as well
create_help_request_anypriority(tk, clock, request_id, priority, fault, wfail) ==
  LET inserted == [tk EXCEPT ![request_id] =
                     [status |-> "new", assigned_to |-> NULL,
                      priority |-> priority, updated_at |-> clock,
                      resolved_at |-> NullTime]]
  IN  simple_auto_assign(inserted, clock, request_id, priority, fault,
                         wfail).tickets

\* INSERT of a new row, then the immediate auto-assignment of every priority
\* but high
create_help_request(tk, clock, request_id, priority, fault, wfail) ==
  LET inserted == [tk EXCEPT ![request_id] =
                     [status |-> "new", assigned_to |-> NULL,
                      priority |-> priority, updated_at |-> clock,
                      resolved_at |-> NullTime]]
  IN  IF priority # "high"
      THEN simple_auto_assign(inserted, clock, request_id, priority, fault,
                              wfail).tickets
      ELSE inserted

\* --------------------------------------------------------- batch assignment
\* the fault of the store calls made for ticket r when the fault is injected
\* into the calls made for ticket ftk
FaultAt(fault, ftk, r) ==
  IF r = ftk THEN fault ELSE "none"

\* ORDER BY CASE priority ... END, created_at of bulk_simple_assign: the CASE
\* has no ELSE, so high yields NULL, which MySQL sorts first
SimpleRank(p) ==
  CASE p = "urgent" -> 1
    [] p = "medium" -> 2
    [] p = "low" -> 3
    [] OTHER -> 0

\* a sort key that puts every other priority, high included, first
BalancedRank_highfirst(p) ==
  CASE p = "urgent" -> 1
    [] p = "medium" -> 2
    [] p = "low" -> 3
    [] OTHER -> 0

\* the sort key of bulk_auto_assign_balanced
BalancedRank(p) ==
  CASE p = "urgent" -> 1
    [] p = "medium" -> 2
    [] p = "low" -> 3
    [] OTHER -> 4

\* request_id is AUTO_INCREMENT and created_at is the insertion time, so
\* created_at never decreases with request_id: ordering by created_at, equal
\* times in id order, is ordering by request_id
created_at(request_id) ==
  request_id

KeyLeq(tk, a, b, rk1, rk2) ==
  \/ rk1 < rk2
  \/ rk1 = rk2 /\ created_at(a) <= created_at(b)

\* requests S in ascending (rank, created_at) order
RECURSIVE SortRequests(_, _, _)
SortRequests(tk, S, simple) ==
  IF S = {} THEN <<>>
  ELSE LET rk(x) == IF simple THEN SimpleRank(tk[x].priority)
                    ELSE BalancedRank(tk[x].priority)
           m == CHOOSE x \in S : \A y \in S : KeyLeq(tk, x, y, rk(x), rk(y))
       IN  <<m>> \o SortRequests(tk, S \ {m}, simple)

Unassigned(tk) ==
  {r \in DOMAIN tk : tk[r].status \notin {"none", "solved"}
                     /\ tk[r].assigned_to = NULL}

RECURSIVE BulkSimpleLoop(_, _, _, _, _, _, _)
BulkSimpleLoop(reqs, i, clock, priorities, fault, ftk, acc) ==
  IF i > Len(reqs) THEN acc
  ELSE LET r == simple_auto_assign(acc.tickets, clock, reqs[i],
                    priorities[reqs[i]], FaultAt(fault, ftk, reqs[i]),
                    acc.wfail)
       IN  BulkSimpleLoop(reqs, i + 1, clock, priorities, fault, ftk,
             [acc EXCEPT !.tickets = r.tickets,
                         !.assigned_count = IF r.ok THEN @ + 1 ELSE @,
                         !.failed = IF r.ok THEN @
                                    ELSE @ \cup {<<reqs[i], r.msg>>},
                         !.steps = Append(@, [ticket |-> reqs[i],
                                              tech |-> r.tech,
                                              ok |-> r.ok])])

bulk_simple_assign(tk, clock, fault, ftk, wfail) ==
  LET unassigned_requests == SortRequests(tk, Unassigned(tk), TRUE)
      priorities == [r \in DOMAIN tk |-> tk[r].priority]
  IN  BulkSimpleLoop(unassigned_requests, 1, clock, priorities, fault, ftk,
        [tickets |-> tk, assigned_count |-> 0, failed |-> {}, wfail |-> wfail,
         steps |-> <<>>])

\* a min that keeps the last of the keys that have the least total
MinTotal_last(technicians, current_workload, new_assignments) ==
  LET total(u) == IF current_workload[u] = INF THEN INF
                  ELSE current_workload[u] + ScoreScale * new_assignments[u]
      pick == CHOOSE i \in 1 .. Len(technicians) :
                /\ \A j \in 1 .. Len(technicians) :
                     total(technicians[i]) <= total(technicians[j])
                /\ \A j \in (i + 1) .. Len(technicians) :
                     total(technicians[j]) > total(technicians[i])
  IN  technicians[pick]

\* a min over the snapshot alone, the counters of the run left out
MinTotal_nopending(technicians, current_workload, new_assignments) ==
  LET first == CHOOSE i \in 1 .. Len(technicians) :
                 /\ \A j \in 1 .. Len(technicians) :
                      current_workload[technicians[i]]
                        <= current_workload[technicians[j]]
                 /\ \A j \in 1 .. (i - 1) :
                      current_workload[technicians[j]]
                        > current_workload[technicians[i]]
  IN  technicians[first]

\* min(technician_workloads.keys(), key = current_workload + new_assignments):
\* the first key, in insertion (id) order, that has the least total
MinTotal(technicians, current_workload, new_assignments) ==
  LET total(u) == IF current_workload[u] = INF THEN INF
                  ELSE current_workload[u] + ScoreScale * new_assignments[u]
      first == CHOOSE i \in 1 .. Len(technicians) :
                 /\ \A j \in 1 .. Len(technicians) :
                      total(technicians[i]) <= total(technicians[j])
                 /\ \A j \in 1 .. (i - 1) :
                      total(technicians[j]) > total(technicians[i])
  IN  technicians[first]

\* one turn of the loop of bulk_auto_assign_balanced, for one request: acc
\* holds the store, the counters and the failures of the run so far, and the
\* turn is appended to acc.steps with the counters before and after it
BalancedStep(acc, clock, request_id, priority, technicians, current_workload, fault) ==
  LET best_tech_id == MinTotal(technicians, current_workload,
                               acc.new_assignments)
      turn(ok, msg, after) ==
        [ticket |-> request_id, tech |-> best_tech_id, ok |-> ok, msg |-> msg,
         before |-> acc.new_assignments, after |-> after]
  IN  IF priority = "high" /\ role[best_tech_id] # "super_admin"
      THEN LET msg == "No super admin available for high priority request"
           IN  [acc EXCEPT !.failed = @ \cup {<<request_id, msg>>},
                           !.steps = Append(@, turn(FALSE, msg,
                                                    acc.new_assignments))]
      ELSE LET r == update_help_request_status(acc.tickets, clock, request_id,
                      "assigned", best_tech_id, priority, FALSE, fault)
               msg == "Failed to update request status"
               counted == [u \in Techs |->
                             IF u = best_tech_id
                             THEN acc.new_assignments[u] + 1
                             ELSE acc.new_assignments[u]]
           IN  IF r.ok
               THEN [acc EXCEPT !.tickets = r.tickets,
                                !.assigned_count = @ + 1,
                                !.new_assignments = counted,
                                !.steps = Append(@, turn(TRUE, "", counted))]
               ELSE [acc EXCEPT !.tickets = r.tickets,
                                !.failed = @ \cup {<<request_id, msg>>},
                                !.steps = Append(@, turn(FALSE, msg,
                                                   acc.new_assignments))]

RECURSIVE BalancedLoop(_, _, _, _, _, _, _, _, _)
BalancedLoop(reqs, i, clock, priorities, technicians, current_workload, fault, ftk, acc) ==
  IF i > Len(reqs) THEN acc
  ELSE BalancedLoop(reqs, i + 1, clock, priorities, technicians,
         current_workload, fault, ftk,
         BalancedStep(acc, clock, reqs[i], priorities[reqs[i]], technicians,
                      current_workload, FaultAt(fault, ftk, reqs[i])))

\* technician_workloads: the score of every technician of the pool, read
\* once; a technician outside the pool has no entry (0 here)
Snapshot(tk, clock, technicians, wfail) ==
  [u \in Techs |->
     IF \E i \in DOMAIN technicians : technicians[i] = u
     THEN calculate_technician_workload(tk, clock, u, wfail)
     ELSE 0]

bulk_auto_assign_balanced(tk, clock, backlog, fault, ftk, wfail) ==
  LET technicians == get_available_technicians("medium", fault)
      priorities == [r \in DOMAIN tk |-> tk[r].priority]
      technician_workloads == Snapshot(tk, clock, technicians, wfail)
      start == [tickets |-> tk, assigned_count |-> 0, failed |-> {},
                new_assignments |-> [u \in Techs |-> 0], steps |-> <<>>,
                snapshot |-> <<>>]
  IN  IF technicians = <<>>
      THEN [start EXCEPT !.failed =
              {<<r, "No available technicians found">> : r \in backlog}]
      ELSE BalancedLoop(SortRequests(tk, backlog, FALSE), 1, clock,
             priorities, technicians, technician_workloads, fault, ftk,
             [start EXCEPT !.snapshot = technician_workloads])

\* ------------------------------------------------------------------ replies
\* add_help_reply: the reply row is inserted, then the ticket row is written
\* by the reply's own UPDATE statements
add_help_reply(tk, clock, request_id, sender_id, requires_user_response, mark_as_solved) ==
  LET t == tk[request_id]
      is_staff == sender_id \in Techs
  IN  IF t.status = "none" THEN [ok |-> FALSE, tickets |-> tk]
      ELSE IF is_staff /\ (t.assigned_to = NULL \/ t.assigned_to # sender_id)
      THEN [ok |-> FALSE, tickets |-> tk]
      ELSE IF ~is_staff /\ sender_id # Owner
      THEN [ok |-> FALSE, tickets |-> tk]
      ELSE IF is_staff
      THEN [ok |-> TRUE, tickets |-> [tk EXCEPT ![request_id] =
              [t EXCEPT !.updated_at = clock,
                        !.status = IF requires_user_response THEN "blocked"
                                   ELSE IF mark_as_solved THEN "solved"
                                   ELSE @,
                        !.resolved_at = IF ~requires_user_response
                                           /\ mark_as_solved
                                        THEN clock ELSE @]]]
      ELSE [ok |-> TRUE, tickets |->
              IF t.status = "blocked"
              THEN [tk EXCEPT ![request_id] =
                      [t EXCEPT !.status = "assigned", !.updated_at = clock]]
              ELSE tk]

\* ------------------------------------------------------------- staff routes
has_platform_permission(user, required_role) ==
  required_role \in (IF role[user] = "super_admin"
                     THEN {"super_admin", "support_technician", "participant"}
                     ELSE {"support_technician", "participant"})

take_request(tk, clock, request_id, current_user_id, fault) ==
  LET request == tk[request_id]
  IN  IF request.status = "none" THEN NoUpdate(tk)
      ELSE IF request.assigned_to # NULL
              /\ request.assigned_to # current_user_id
      THEN NoUpdate(tk)
      ELSE IF request.priority = "high"
              /\ role[current_user_id] # "super_admin"
      THEN NoUpdate(tk)
      ELSE IF ~is_valid_status_transition(request.status, "assigned")
      THEN NoUpdate(tk)
      ELSE update_help_request_status(tk, clock, request_id, "assigned",
                                      current_user_id, None, FALSE, fault)

drop_request(tk, clock, request_id, current_user_id, fault) ==
  LET request == tk[request_id]
  IN  IF request.status = "none" THEN NoUpdate(tk)
      ELSE IF request.assigned_to = NULL THEN NoUpdate(tk)
      ELSE IF request.assigned_to # current_user_id
              /\ ~has_platform_permission(current_user_id, "super_admin")
      THEN NoUpdate(tk)
      ELSE IF request.status = "solved" THEN NoUpdate(tk)
      ELSE IF request.status = "new"
      THEN update_help_request_status(tk, clock, request_id, request.status,
                                      NULL, None, TRUE, fault)
      ELSE IF ~is_valid_status_transition(request.status, "new")
      THEN NoUpdate(tk)
      ELSE update_help_request_status(tk, clock, request_id, "new", NULL,
             None, has_platform_permission(current_user_id, "super_admin"),
             fault)

unassign_request(tk, clock, request_id, fault) ==
  LET request == tk[request_id]
  IN  IF request.status = "none" THEN NoUpdate(tk)
      ELSE IF request.assigned_to = NULL THEN NoUpdate(tk)
      ELSE IF request.status = "solved" THEN NoUpdate(tk)
      ELSE update_help_request_status(tk, clock, request_id, "new", NULL,
                                      None, TRUE, fault)

update_request_status(tk, clock, request_id, current_user_id, status, priority, assigned_to, fault) ==
  LET request == tk[request_id]
  IN  IF request.status = "none" THEN NoUpdate(tk)
      ELSE IF validate_status_transition(request.status, status) # None
      THEN NoUpdate(tk)
      ELSE IF request.priority = "high"
              /\ role[current_user_id] # "super_admin"
      THEN NoUpdate(tk)
      ELSE update_help_request_status(tk, clock, request_id, status,
                                      assigned_to, priority, FALSE, fault)

\* ------------------------------------------------------------------ actions
\* the empty store
InitStore ==
  /\ tickets = [r \in TicketIds |-> NoTicket]
  /\ now = 0
  /\ last = NoCall
  /\ calls = [c \in Callers |-> IdleCall]

\* a directory of active technicians, the first one a support technician
\* and the others super admins, over a store of SMTickets rows
Init ==
  /\ role = [u \in Techs |-> IF u = 1 THEN "support_technician"
                              ELSE "super_admin"]
  /\ active = [u \in Techs |-> TRUE]
  /\ tickets = [r \in 1 .. SMTickets |-> NoTicket]
  /\ now = 0
  /\ last = NoCall
  /\ calls = [c \in Callers |-> IdleCall]

\* the same directory over a store of SMTickets rows: the state machine acts
\* on one row at a time
InitSM ==
  /\ role = [u \in Techs |-> IF u = 1 THEN "support_technician"
                              ELSE "super_admin"]
  /\ active = [u \in Techs |-> TRUE]
  /\ tickets = [r \in 1 .. SMTickets |-> NoTicket]
  /\ now = 0
  /\ last = NoCall
  /\ calls = [c \in Callers |-> IdleCall]

\* any directory, technicians deactivated or not; the role of a deactivated
\* user is never read, so one role stands for both
InitAssign ==
  /\ role \in [Techs -> Roles]
  /\ active \in [Techs -> BOOLEAN]
  /\ \A u \in Techs : ~active[u] => role[u] = "support_technician"
  /\ InitStore

\* the rows a backlog is made of: a ticket of any priority that waits for a
\* technician (a high ticket, which is never auto-assigned, or one whose
\* auto-assignment found nobody, or one that was unassigned), and a ticket a
\* technician is working on
BatchRows ==
  {NoTicket}
  \cup {[NoTicket EXCEPT !.status = "new", !.priority = p] :
          p \in HELP_REQUEST_PRIORITIES}
  \cup {[NoTicket EXCEPT !.status = "assigned", !.assigned_to = u,
                         !.priority = p] :
          u \in Techs, p \in {"medium", "urgent"}}

\* any directory and any store of BatchTickets such rows, the rows that exist
\* being the first ones
InitBatch ==
  /\ role \in [Techs -> Roles]
  /\ active \in [Techs -> BOOLEAN]
  /\ \A u \in Techs : ~active[u] => role[u] = "support_technician"
  /\ tickets \in [1 .. BatchTickets -> BatchRows]
  /\ \A r \in DOMAIN tickets :
       tickets[r].status = "none" =>
         \A q \in DOMAIN tickets : q > r => tickets[q].status = "none"
  /\ now = 0
  /\ last = NoCall
  /\ calls = [c \in Callers |-> IdleCall]

\* staff members that can be logged in
Staff ==
  {u \in Techs : active[u]}

Tick ==
  /\ now < MaxNow
  /\ now' = now + 1
  /\ last' = [NoCall EXCEPT !.op = "tick"]
  /\ UNCHANGED <<role, active, tickets, calls>>

\* submit_help_request: the next free row is inserted
CreateWith(request_id, priority, fault, wfail) ==
  /\ tickets[request_id].status = "none"
  /\ \A r \in DOMAIN tickets : r < request_id => tickets[r].status # "none"
  /\ wfail # {} => fault = "none"
  /\ tickets' = create_help_request(tickets, now, request_id, priority,
                                    fault, wfail)
  /\ last' = [NoCall EXCEPT !.op = "create", !.ticket = request_id,
                            !.ok = TRUE]
  /\ UNCHANGED <<role, active, now, calls>>

Create ==
  \E request_id \in DOMAIN tickets, priority \in PriorityInputs, fault \in Faults,
     wfail \in SUBSET Techs :
    CreateWith(request_id, priority, fault, wfail)

\* update_help_request_status called directly, without bypass_validation
Transition ==
  \E request_id \in DOMAIN tickets, status \in HELP_REQUEST_STATUSES,
     assigned_to \in Techs \cup {NULL},
     priority \in PriorityInputs \cup {None},
     fault \in NotiFaults \ {"directory"} :
    \E r \in {update_help_request_status(tickets, now, request_id, status,
                                        assigned_to, priority, FALSE, fault)} :
        /\ tickets' = r.tickets
        /\ last' = [NoCall EXCEPT !.op = "transition", !.ticket = request_id,
                                  !.status = status, !.priority = priority,
                                  !.tech = assigned_to, !.ok = r.ok,
                                  !.fault = fault, !.notes = r.notes]
        /\ UNCHANGED <<role, active, now, calls>>

AssignWith(request_id, priority, fault, wfail) ==
  /\ wfail # {} => fault = "none"
  /\ \E r \in {auto_assign_request(tickets, now, request_id, priority, fault,
                                  wfail)} :
         /\ tickets' = r.tickets
         /\ last' = [NoCall EXCEPT !.op = "assign", !.ticket = request_id,
                                   !.priority = priority, !.ok = r.ok,
                                   !.tech = r.tech, !.msg = r.msg,
                                   !.wfail = wfail]
         /\ UNCHANGED <<role, active, now, calls>>

Assign ==
  \E request_id \in DOMAIN tickets, priority \in PriorityInputs,
     fault \in NotiFaults, wfail \in SUBSET Techs :
    AssignWith(request_id, priority, fault, wfail)

\* distribute: the backlog is the unassigned, unsolved tickets of the store
Distribute ==
  \E fault \in Faults, ftk \in DOMAIN tickets, wfail \in SUBSET Techs :
    /\ Unassigned(tickets) # {}
    /\ wfail # {} => fault = "none"
    /\ fault \in {"none", "directory"} => ftk = 1
    /\ fault \notin {"none", "directory"} => ftk \in Unassigned(tickets)
    /\ \E r \in {bulk_auto_assign_balanced(tickets, now, Unassigned(tickets),
                                          fault, ftk, wfail)} :
           /\ tickets' = r.tickets
           /\ last' = [NoCall EXCEPT !.op = "distribute", !.ok = TRUE,
                                     !.count = r.assigned_count,
                                     !.failed = r.failed, !.wfail = wfail,
                                     !.snapshot = r.snapshot,
                                     !.steps = r.steps]
           /\ UNCHANGED <<role, active, now, calls>>

BulkSimpleAssignWith(fault, ftk, wfail) ==
  /\ wfail # {} => fault = "none"
  /\ fault = "none" => ftk = 1
  /\ fault # "none" => ftk \in Unassigned(tickets)
  /\ \E r \in {bulk_simple_assign(tickets, now, fault, ftk, wfail)} :
         /\ tickets' = r.tickets
         /\ last' = [NoCall EXCEPT !.op = "bulk_simple_assign",
                                   !.ok = TRUE, !.count = r.assigned_count,
                                   !.failed = r.failed, !.wfail = wfail,
                                   !.steps = r.steps]
         /\ UNCHANGED <<role, active, now, calls>>

BulkSimpleAssign ==
  \E fault \in Faults, ftk \in DOMAIN tickets, wfail \in SUBSET Techs :
    BulkSimpleAssignWith(fault, ftk, wfail)

Take ==
  \E request_id \in DOMAIN tickets, user \in Staff :
    \E r \in {take_request(tickets, now, request_id, user, "none")} :
        /\ tickets' = r.tickets
        /\ last' = [NoCall EXCEPT !.op = "take", !.ticket = request_id,
                                  !.ok = r.ok]
        /\ UNCHANGED <<role, active, now, calls>>

Drop ==
  \E request_id \in DOMAIN tickets, user \in Staff :
    \E r \in {drop_request(tickets, now, request_id, user, "none")} :
        /\ tickets' = r.tickets
        /\ last' = [NoCall EXCEPT !.op = "drop", !.ticket = request_id,
                                  !.ok = r.ok, !.caller = user,
                                  !.bypass = r.bypass]
        /\ UNCHANGED <<role, active, now, calls>>

\* the route is open to super admins only
Unassign ==
  \E request_id \in DOMAIN tickets, user \in Staff :
    /\ role[user] = "super_admin"
    /\ \E r \in {unassign_request(tickets, now, request_id, "none")} :
           /\ tickets' = r.tickets
           /\ last' = [NoCall EXCEPT !.op = "unassign", !.ticket = request_id,
                                     !.ok = r.ok, !.caller = user,
                                     !.bypass = r.bypass]
           /\ UNCHANGED <<role, active, now, calls>>

\* the form posts a status, a priority and an assignee (empty for none)
UpdateStatus ==
  \E request_id \in DOMAIN tickets, user \in Staff,
     status \in HELP_REQUEST_STATUSES, priority \in PriorityInputs,
     assigned_to \in Techs \cup {NULL} :
    \E r \in {update_request_status(tickets, now, request_id, user, status,
                                   priority, assigned_to, "none")} :
        /\ tickets' = r.tickets
        /\ last' = [NoCall EXCEPT !.op = "update_status",
                                  !.ticket = request_id, !.ok = r.ok]
        /\ UNCHANGED <<role, active, now, calls>>

\* reply_to_help_request: only staff can ask for a response or mark as solved
Reply ==
  \E request_id \in DOMAIN tickets, sender \in Staff \cup {Owner},
     action \in {"normal", "requires_response", "mark_solved"} :
    /\ sender = Owner => action = "normal"
    /\ \E r \in {add_help_reply(tickets, now, request_id, sender,
                               action = "requires_response",
                               action = "mark_solved")} :
           /\ tickets' = r.tickets
           /\ last' = [NoCall EXCEPT !.op = "reply", !.ticket = request_id,
                                     !.ok = r.ok]
           /\ UNCHANGED <<role, active, now, calls>>

\* every ticket operation of the program, the clock standing still
Next ==
  \/ Create
  \/ Transition
  \/ Assign
  \/ Distribute
  \/ BulkSimpleAssign
  \/ Take
  \/ Drop
  \/ Unassign
  \/ UpdateStatus
  \/ Reply

Spec ==
  Init /\ [][Next]_vars

\* the state machine alone
NextSM ==
  \/ Create
  \/ Transition

SpecSM ==
  InitSM /\ [][NextSM]_vars

\* the single-ticket assigner on a store whose load changes with replies and
\* with the clock
NextAssign ==
  \/ Tick
  \/ Create
  \/ Assign
  \/ Reply

SpecAssign ==
  InitAssign /\ [][NextAssign]_vars

\* the two batch assigners on a backlog
NextBatch ==
  \/ Distribute
  \/ BulkSimpleAssign

SpecBatch ==
  InitBatch /\ [][NextBatch]_vars

\* ------------------------------------------------------- concurrent callers
\* The handlers run in separate requests with no lock and no transaction
\* around them: a call takes its reads in one step and each of its writes in
\* a later one, and the steps of the callers interleave.

\* tickets that wait for a technician and tickets technicians work on
ConcRows ==
  {NoTicket}
  \cup {[NoTicket EXCEPT !.status = "new", !.priority = p] :
          p \in PriorityInputs}
  \cup {[NoTicket EXCEPT !.status = "assigned", !.assigned_to = u] :
          u \in Techs}

\* active technicians of any role, a store of such rows, every caller idle
InitConc ==
  /\ role \in [Techs -> Roles]
  /\ active = [u \in Techs |-> TRUE]
  /\ tickets \in [TicketIds -> ConcRows]
  /\ \A r \in DOMAIN tickets :
       tickets[r].status = "none" =>
         \A q \in DOMAIN tickets : q > r => tickets[q].status = "none"
  /\ now = 0
  /\ last = NoCall
  /\ calls = [c \in Callers |-> IdleCall]

\* auto_assign_request up to the return of find_least_busy_technician: the
\* directory and the scores are read and the technician is chosen
AssignRead(c) ==
  \E request_id \in DOMAIN tickets :
    /\ calls[c].pc = "idle"
    /\ tickets[request_id].status # "none"
    /\ \E found \in {find_least_busy_technician(tickets, now,
                        tickets[request_id].priority, "none", {})} :
          calls' = [calls EXCEPT ![c] =
            [IdleCall EXCEPT !.op = "assign", !.ticket = request_id,
               !.priority = tickets[request_id].priority,
               !.tech = found.technician,
               !.pc = IF found.technician = NULL THEN "done"
                      ELSE "decided"]]
    /\ last' = [NoCall EXCEPT !.op = "assign_read", !.caller = c]
    /\ UNCHANGED <<role, active, tickets, now>>

\* a commit that chooses the technician again on the store as it is now
CommitTarget_reread(c) ==
  find_least_busy_technician(tickets, now, calls[c].priority, "none",
                             {}).technician

\* the technician auto_assign_request passes to update_help_request_status:
\* its local best_technician
CommitTarget(c) ==
  calls[c].tech

\* the rest of auto_assign_request: the transition to assigned
AssignCommit(c) ==
  /\ calls[c].pc = "decided"
  /\ \E r \in {update_help_request_status(tickets, now, calls[c].ticket,
                   "assigned", CommitTarget(c), calls[c].priority, FALSE,
                   "none")} :
        /\ tickets' = r.tickets
        /\ calls' = [calls EXCEPT ![c].pc = "done", ![c].ok = r.ok,
                                  ![c].old_assigned_to =
                                    tickets[calls[c].ticket].assigned_to]
  /\ last' = [NoCall EXCEPT !.op = "assign_commit", !.caller = c]
  /\ UNCHANGED <<role, active, now>>

\* bulk_auto_assign_balanced up to its loop, on the backlog of the store: the
\* pool and the scores are read, the requests are sorted
DistributeStart(c) ==
  /\ calls[c].pc = "idle"
  /\ Unassigned(tickets) # {}
  /\ \E technicians \in {get_available_technicians("medium", "none")} :
        calls' = [calls EXCEPT ![c] =
          [IdleCall EXCEPT !.op = "distribute",
             !.pc = IF technicians = <<>> THEN "done" ELSE "running",
             !.technicians = technicians,
             !.snapshot = Snapshot(tickets, now, technicians, {}),
             !.queue = IF technicians = <<>> THEN <<>>
                       ELSE SortRequests(tickets, Unassigned(tickets), FALSE),
             !.priorities = [r \in DOMAIN tickets |-> tickets[r].priority],
             !.new_assignments = [u \in Techs |-> 0],
             !.failed = IF technicians # <<>> THEN {}
                        ELSE {<<r, "No available technicians found">> :
                                r \in Unassigned(tickets)}]]
  /\ last' = [NoCall EXCEPT !.op = "distribute_start", !.caller = c]
  /\ UNCHANGED <<role, active, tickets, now>>

\* scores that are read again from the store at every turn
RunScores_reread(c) ==
  Snapshot(tickets, now, calls[c].technicians, {})

\* the scores a turn of the loop compares: technician_workloads, the
\* dictionary filled before the loop
RunScores(c) ==
  calls[c].snapshot

\* one turn of the loop of bulk_auto_assign_balanced, on the store as it is
\* when the turn is taken
DistributeTurn(c) ==
  /\ calls[c].pc = "running"
  /\ calls[c].queue # <<>>
  /\ \E acc \in {BalancedStep(
                    [tickets |-> tickets,
                     assigned_count |-> calls[c].assigned_count,
                     failed |-> calls[c].failed,
                     new_assignments |-> calls[c].new_assignments,
                     steps |-> calls[c].steps],
                    now, Head(calls[c].queue),
                    calls[c].priorities[Head(calls[c].queue)],
                    calls[c].technicians, RunScores(c), "none")} :
        /\ tickets' = acc.tickets
        /\ calls' = [calls EXCEPT ![c] =
             [calls[c] EXCEPT !.queue = Tail(calls[c].queue),
                !.pc = IF Tail(calls[c].queue) = <<>> THEN "done"
                       ELSE "running",
                !.assigned_count = acc.assigned_count,
                !.failed = acc.failed,
                !.new_assignments = acc.new_assignments,
                !.steps = acc.steps]]
  /\ last' = [NoCall EXCEPT !.op = "distribute_turn", !.caller = c]
  /\ UNCHANGED <<role, active, now>>

NextConc ==
  \E c \in Callers :
    \/ AssignRead(c)
    \/ AssignCommit(c)
    \/ DistributeStart(c)
    \/ DistributeTurn(c)

SpecConc ==
  InitConc /\ [][NextConc]_vars

\* ------------------------------------------------------------- properties
\* the fields of a ticket the claims speak of
Same(a, b) ==
  /\ a.status = b.status
  /\ a.assigned_to = b.assigned_to
  /\ a.priority = b.priority

\* the transition table of the specification
LegalTable ==
  {<<"new", "assigned">>, <<"new", "solved">>,
   <<"assigned", "new">>, <<"assigned", "blocked">>, <<"assigned", "solved">>,
   <<"blocked", "new">>, <<"blocked", "assigned">>, <<"blocked", "solved">>}

\* the technicians a ticket of priority p may go to
EligiblePool(p) ==
  {u \in Techs : active[u] /\ (p = "high" => role[u] = "super_admin")}

\* C1: a transition without bypass_validation on an existing ticket is
\* accepted only if the target is the current status or the pair is in the
\* table, and, when no store call fails, it is accepted whenever that is so.
C1_TransitionTable ==
  [][(last'.op = "transition" /\ tickets[last'.ticket].status # "none") =>
       LET current == tickets[last'.ticket].status
           legal == last'.status = current
                    \/ <<current, last'.status>> \in LegalTable
       IN  /\ last'.ok => legal
           /\ (legal /\ last'.fault = "none") => last'.ok]_vars

\* an accepted move of an assigned ticket to blocked
C1_Witness ==
  /\ last.op = "transition" /\ last.ok /\ last.status = "blocked"
  /\ last.fault = "none"
  /\ tickets[last.ticket].status = "blocked"

\* C2: a transition without bypass_validation of a solved ticket to new,
\* assigned or blocked is rejected and leaves status, assigned_to and
\* priority as they were.
C2_SolvedRejects ==
  [][(/\ last'.op = "transition"
      /\ tickets[last'.ticket].status = "solved"
      /\ last'.status \in {"new", "assigned", "blocked"}) =>
       /\ ~last'.ok
       /\ Same(tickets'[last'.ticket], tickets[last'.ticket])]_vars

\* a rejected move out of solved, no store call having failed
C2_Witness ==
  /\ last.op = "transition" /\ ~last.ok /\ last.fault = "none"
  /\ last.status \in {"new", "assigned", "blocked"}
  /\ tickets[last.ticket].status = "solved"

\* C3: once a ticket is solved, no operation changes its status or its
\* assigned_to.
C3_SolvedFrozen ==
  [][\A r \in DOMAIN tickets :
       tickets[r].status = "solved" =>
         /\ tickets'[r].status = "solved"
         /\ tickets'[r].assigned_to = tickets[r].assigned_to]_vars

\* C4: an assign call on a ticket that is assigned to a technician fails and
\* leaves assigned_to as it was.
C4_SecondAssignFails ==
  [][(/\ last'.op = "assign"
      /\ tickets[last'.ticket].status = "assigned"
      /\ tickets[last'.ticket].assigned_to # NULL) =>
       /\ ~last'.ok
       /\ tickets'[last'.ticket].assigned_to
            = tickets[last'.ticket].assigned_to]_vars

\* C5: after an assign that returned (true, T, message) the ticket is
\* assigned, assigned_to is T, and T is one technician of the eligible pool
\* of the priority.
C5_AssignCommits ==
  (last.op = "assign" /\ last.ok) =>
    /\ tickets[last.ticket].status = "assigned"
    /\ tickets[last.ticket].assigned_to = last.tech
    /\ last.tech \in EligiblePool(last.priority)

\* a successful assign
C5_Witness ==
  /\ last.op = "assign" /\ last.ok
  /\ tickets[last.ticket].assigned_to = last.tech
  /\ last.tech \in Techs

\* C6: the pool of priority high holds active super admins only; an assign
\* of priority high never moves assigned_to to anyone but an active super
\* admin, and fails, changing nothing, when there is no active super admin.
C6_HighOnlySuperAdmin ==
  [][/\ \A i \in DOMAIN get_available_technicians("high", "none") :
          LET u == get_available_technicians("high", "none")[i]
          IN  role[u] = "super_admin" /\ active[u]
     /\ (last'.op = "assign" /\ last'.priority = "high") =>
          LET before == tickets[last'.ticket]
              after == tickets'[last'.ticket]
          IN  /\ last'.ok => (role[last'.tech] = "super_admin"
                              /\ active[last'.tech])
              /\ after.assigned_to # before.assigned_to =>
                   /\ after.assigned_to \in Techs
                   /\ role[after.assigned_to] = "super_admin"
                   /\ active[after.assigned_to]
              /\ (\A u \in Techs : ~(role[u] = "super_admin" /\ active[u])) =>
                   (~last'.ok /\ tickets' = tickets)]_vars

\* a high ticket assigned to a super admin although a support technician
\* with a lower id is active and idle
C6_Witness ==
  /\ last.op = "assign" /\ last.ok /\ last.priority = "high"
  /\ role[last.tech] = "super_admin"
  /\ \E u \in Techs :
       /\ u < last.tech /\ active[u] /\ role[u] = "support_technician"
       /\ ActiveLoad(tickets, u) = {}

\* C7: the technician a successful assign selects has the least score of
\* the eligible pool, the scores being those the scorer returns on the store
\* as it is when assign is called, and no technician of the pool with a
\* lower id has the same score.
C7_LeastBusyLowestId ==
  [][(last'.op = "assign" /\ last'.ok) =>
       LET score(u) == calculate_technician_workload(tickets, now, u,
                                                     last'.wfail)
       IN  \A u \in EligiblePool(last'.priority) :
             /\ score(last'.tech) <= score(u)
             /\ score(u) = score(last'.tech) => last'.tech <= u]_vars

\* the second technician is selected because the first, active and eligible,
\* carries another ticket
C7_Witness ==
  /\ last.op = "assign" /\ last.ok /\ last.tech = 2 /\ last.wfail = {}
  /\ 1 \in EligiblePool(last.priority)
  /\ \E r \in DOMAIN tickets : r # last.ticket /\ r \in ActiveLoad(tickets, 1)

\* C8: an assign whose eligible pool is empty returns (false, null,
\* "No available technicians found") and changes no ticket.
C8_EmptyPool ==
  [][(last'.op = "assign" /\ EligiblePool(last'.priority) = {}) =>
       /\ ~last'.ok
       /\ last'.tech = NULL
       /\ last'.msg = "No available technicians found"
       /\ tickets' = tickets]_vars

\* an assign of an existing ticket that found the pool empty
C8_Witness ==
  /\ last.op = "assign" /\ ~last.ok
  /\ last.msg = "No available technicians found"
  /\ EligiblePool(last.priority) = {}
  /\ tickets[last.ticket].status = "new"

\* C9: when transition or assign reports a failure, or a batch reports a
\* failure for a ticket, that ticket's status, assigned_to and priority are
\* what they were before the operation.
C9_FailureLeavesTicket ==
  [][/\ (last'.op \in {"transition", "assign"} /\ ~last'.ok) =>
          Same(tickets'[last'.ticket], tickets[last'.ticket])
     /\ last'.op \in {"distribute", "bulk_simple_assign"} =>
          \A f \in last'.failed : Same(tickets'[f[1]], tickets[f[1]])]_vars

\* C10: only the operations that go through update_help_request_status
\* change a ticket's status or assigned_to; a reply changes neither.
C10_OnlyStateMachineWrites ==
  [][(\E r \in DOMAIN tickets :
        /\ tickets[r].status # "none"
        /\ \/ tickets'[r].status # tickets[r].status
           \/ tickets'[r].assigned_to # tickets[r].assigned_to) =>
       last'.op \in {"create", "transition", "assign", "distribute",
                     "bulk_simple_assign", "take", "drop", "unassign",
                     "update_status"}]_vars

\* C11: an accepted transition stamps resolved_at with the time of the call
\* when its target is solved and leaves resolved_at alone otherwise, and it
\* always stamps updated_at with the time of the call.
C11_ResolvedAtOnSolved ==
  [][(last'.op = "transition" /\ last'.ok) =>
       LET before == tickets[last'.ticket]
           after == tickets'[last'.ticket]
       IN  /\ after.updated_at = now
           /\ after.resolved_at = IF last'.status = "solved" THEN now
                                  ELSE before.resolved_at]_vars

\* C12, as the code has it: an accepted transition always writes assigned_to,
\* the technician it is called with or NULL when it is called without one;
\* it writes the priority it is called with and leaves the priority as it was
\* when it is called without one.
C12_AssignedToAlwaysWritten ==
  [][(last'.op = "transition" /\ last'.ok) =>
       LET before == tickets[last'.ticket]
           after == tickets'[last'.ticket]
       IN  /\ after.assigned_to = last'.tech
           /\ after.priority = IF last'.priority = None THEN before.priority
                               ELSE last'.priority]_vars

\* an accepted move to blocked, called without assigned_to and without
\* priority, that left the ticket without a technician
C12_Witness ==
  /\ last.op = "transition" /\ last.ok /\ last.status = "blocked"
  /\ last.tech = NULL /\ last.priority = None
  /\ tickets[last.ticket].status = "blocked"
  /\ tickets[last.ticket].assigned_to = NULL

\* C12 as stated: an accepted transition called without assigned_to leaves
\* the ticket's assigned_to as it was, and one called without priority leaves
\* the ticket's priority as it was.
C12_OptionalArguments ==
  [][(last'.op = "transition" /\ last'.ok) =>
       LET before == tickets[last'.ticket]
           after == tickets'[last'.ticket]
       IN  /\ last'.tech = NULL => after.assigned_to = before.assigned_to
           /\ last'.priority = None => after.priority = before.priority]_vars

\* snapshot_score + pending_count of technician u, in the unit of the scores
RunTotal(snapshot, pending, u) ==
  IF snapshot[u] = INF THEN INF ELSE snapshot[u] + ScoreScale * pending[u]

NoSuperAdmin ==
  "No super admin available for high priority request"

\* C13: in a distribute run a high ticket goes to a super admin of the pool,
\* the one with the least snapshot score + pending count, whenever the pool
\* holds a super admin; the "No super admin" failure is recorded only when
\* the pool holds none, and then no pending count changes.
C13_HighOfferedToSuperAdmins ==
  [][last'.op = "distribute" =>
       \A i \in DOMAIN last'.steps :
         LET st == last'.steps[i]
             admins == EligiblePool("high")
             total(u) == RunTotal(last'.snapshot, st.before, u)
         IN  tickets[st.ticket].priority = "high" =>
               /\ admins # {} =>
                    /\ st.msg # NoSuperAdmin
                    /\ st.tech \in admins
                    /\ \A u \in admins : total(st.tech) <= total(u)
               /\ admins = {} =>
                    /\ st.msg = NoSuperAdmin
                    /\ st.after = st.before]_vars

\* C14: the snapshot of a distribute run holds the scores of the store the
\* run started on; every ticket that is not high goes to the technician of
\* the pool with the least snapshot score + pending count, the lowest id
\* among equals; a successful transition adds 1 to that technician's pending
\* count and changes no other, a failed one changes none and records
\* (ticket, "Failed to update request status").
C14_LeastTotalCounted ==
  [][last'.op = "distribute" =>
       /\ \A u \in EligiblePool("medium") :
            last'.steps # <<>> =>
              last'.snapshot[u]
                = calculate_technician_workload(tickets, now, u, last'.wfail)
       /\ \A i \in DOMAIN last'.steps :
            LET st == last'.steps[i]
                total(u) == RunTotal(last'.snapshot, st.before, u)
            IN  /\ i > 1 => st.before = last'.steps[i - 1].after
                /\ tickets[st.ticket].priority # "high" =>
                     /\ st.tech \in EligiblePool("medium")
                     /\ \A u \in EligiblePool("medium") :
                          /\ total(st.tech) <= total(u)
                          /\ total(u) = total(st.tech) => st.tech <= u
                     /\ st.ok =>
                          /\ tickets'[st.ticket].assigned_to = st.tech
                          /\ st.after = [u \in Techs |->
                                           IF u = st.tech THEN st.before[u] + 1
                                           ELSE st.before[u]]
                     /\ ~st.ok =>
                          /\ st.after = st.before
                          /\ <<st.ticket, "Failed to update request status">>
                               \in last'.failed]_vars

\* a run in which the second technician got a ticket because the first was
\* busier, and in which the transition of another ticket failed
C14_Witness ==
  /\ last.op = "distribute"
  /\ \E i, j \in DOMAIN last.steps :
       /\ last.steps[i].ok /\ last.steps[i].tech = 2
       /\ tickets[last.steps[i].ticket].priority # "high"
       /\ 1 \in EligiblePool("medium")
       /\ last.snapshot[1] > last.snapshot[2]
       /\ ~last.steps[j].ok
       /\ last.steps[j].msg = "Failed to update request status"

\* C15: a batch accounts for every ticket of its backlog: the number it
\* reports as assigned plus the number of failures it records is the size of
\* the backlog, every failure is of a ticket of the backlog, a distribute run
\* takes every ticket of the backlog in exactly one turn, and the number
\* reported as assigned is the number of tickets of the backlog that the
\* store holds as assigned to a technician after the run.
C15_BatchAccounts ==
  [][last'.op \in {"distribute", "bulk_simple_assign"} =>
       LET backlog == Unassigned(tickets)
           moved == {r \in backlog : /\ tickets'[r].status = "assigned"
                                     /\ tickets'[r].assigned_to # NULL}
       IN  /\ last'.count + Cardinality(last'.failed) = Cardinality(backlog)
           /\ \A f \in last'.failed : f[1] \in backlog
           /\ last'.steps # <<>> =>
                /\ Len(last'.steps) = Cardinality(backlog)
                /\ \A r \in backlog :
                     \E i \in DOMAIN last'.steps : last'.steps[i].ticket = r
           /\ last'.count = Cardinality(moved)]_vars

\* the rank of a priority in the order of a distribute run
SpecRank(p) ==
  IF p = "urgent" THEN 1
  ELSE IF p = "medium" THEN 2
  ELSE IF p = "low" THEN 3
  ELSE 4

\* C16: a distribute run takes every ticket of its backlog, in ascending
\* (rank, created_at) order, urgent 1, medium 2, low 3 and every other
\* priority, high included, 4: of two turns the earlier one is of a strictly
\* lower rank, or of the same rank and a ticket created no later.
C16_RunOrder ==
  [][(last'.op = "distribute" /\ last'.steps # <<>>) =>
       /\ Len(last'.steps) = Cardinality(Unassigned(tickets))
       /\ \A i, j \in DOMAIN last'.steps :
            i < j =>
              LET a == last'.steps[i].ticket
                  b == last'.steps[j].ticket
                  ra == SpecRank(tickets[a].priority)
                  rb == SpecRank(tickets[b].priority)
              IN  \/ ra < rb
                  \/ ra = rb /\ created_at(a) < created_at(b)]_vars

\* a run of three turns that took an urgent ticket first and a high ticket,
\* the oldest of the backlog, last
C16_Witness ==
  /\ last.op = "distribute" /\ Len(last.steps) = 3
  /\ tickets[last.steps[1].ticket].priority = "urgent"
  /\ tickets[last.steps[3].ticket].priority = "high"
  /\ \A i \in 1 .. 2 : last.steps[3].ticket < last.steps[i].ticket

RECURSIVE SumOver(_, _)
SumOver(f, S) ==
  IF S = {} THEN 0
  ELSE LET u == CHOOSE x \in S : TRUE
       IN  f[u] + SumOver(f, S \ {u})

\* C17: in a distribute run on a backlog without high tickets, in which the
\* scores of all technicians of the pool were read and are equal and every
\* transition succeeds, after every turn the pending counts of any two
\* technicians of the pool differ by at most 1, and at the end the pending
\* counts sum to the size of the backlog.
C17_BalancedSpread ==
  [][(/\ last'.op = "distribute" /\ last'.steps # <<>>
      /\ \A r \in Unassigned(tickets) : tickets[r].priority # "high"
      /\ \A u, v \in EligiblePool("medium") :
           last'.snapshot[u] = last'.snapshot[v] /\ last'.snapshot[u] < INF
      /\ \A i \in DOMAIN last'.steps : last'.steps[i].ok) =>
       /\ \A i \in DOMAIN last'.steps :
            \A u, v \in EligiblePool("medium") :
              last'.steps[i].after[u] - last'.steps[i].after[v] <= 1
       /\ SumOver(last'.steps[Len(last'.steps)].after, Techs)
            = Cardinality(Unassigned(tickets))]_vars

\* three tickets spread over two technicians of equal score: two for the
\* first, one for the second
C17_Witness ==
  /\ last.op = "distribute" /\ Len(last.steps) = 3
  /\ \A i \in DOMAIN last.steps :
       last.steps[i].ok /\ tickets[last.steps[i].ticket].priority # "high"
  /\ {1, 2} \subseteq EligiblePool("medium")
  /\ \A u, v \in EligiblePool("medium") :
       last.snapshot[u] = last.snapshot[v] /\ last.snapshot[u] < INF
  /\ last.steps[1].tech = 1
  /\ last.steps[3].after[1] = 2 /\ last.steps[3].after[2] = 1

\* C20: no assigner gives a ticket to a technician whose workload read
\* failed: after assign, the simple batch or distribute, a ticket whose
\* assigned_to changed is not assigned to a technician whose read failed in
\* that call.
C20_FailedReadNeverAssigned ==
  [][last'.op \in {"assign", "bulk_simple_assign", "distribute"} =>
       \A r \in DOMAIN tickets :
         tickets'[r].assigned_to # tickets[r].assigned_to =>
           tickets'[r].assigned_to \notin last'.wfail]_vars

\* the technicians of the pool a distribute run read
RunPool(c) ==
  {calls[c].technicians[i] : i \in DOMAIN calls[c].technicians}

\* C18: a distribute run reads the scores when it starts, as the store has
\* them then, and never again: while it runs its snapshot does not change,
\* and every turn selects the technician with the least snapshot score +
\* pending count, the lowest id among equals, whatever other callers have
\* written to the store since the run started.
C18_SnapshotOnly ==
  [][\A c \in Callers :
       /\ (calls[c].pc = "idle" /\ calls'[c].pc = "running") =>
            \A i \in DOMAIN calls'[c].technicians :
              LET u == calls'[c].technicians[i]
              IN  calls'[c].snapshot[u]
                    = calculate_technician_workload(tickets, now, u, {})
       /\ calls[c].pc = "running" =>
            /\ calls'[c].snapshot = calls[c].snapshot
            /\ Len(calls'[c].steps) > Len(calls[c].steps) =>
                 LET st == calls'[c].steps[Len(calls'[c].steps)]
                     total(u) == RunTotal(calls[c].snapshot, st.before, u)
                 IN  /\ st.tech \in RunPool(c)
                     /\ \A u \in RunPool(c) :
                          /\ total(st.tech) <= total(u)
                          /\ total(u) = total(st.tech) => st.tech <= u]_vars

\* a turn that has just given a ticket to the technician its snapshot shows
\* idle, after another caller's assign had committed a ticket to that
\* technician, while a technician of the pool is idle in the store
C18_Witness ==
  /\ last.op = "distribute_turn"
  /\ LET c == last.caller
         st == calls[c].steps[Len(calls[c].steps)]
     IN  /\ st.ok
         /\ calls[c].snapshot[st.tech] = 0
         /\ \E d \in Callers \ {c} :
              /\ calls[d].op = "assign" /\ calls[d].pc = "done" /\ calls[d].ok
              /\ calls[d].ticket # st.ticket
              /\ tickets[calls[d].ticket].assigned_to = st.tech
              /\ tickets[calls[d].ticket].status = "assigned"
         /\ \E u \in RunPool(c) :
              /\ u # st.tech /\ ActiveLoad(tickets, u) = {}
              /\ st.before[u] = 0

\* C19: nothing holds a commit back or makes it look at the store again: a
\* call of assign that has chosen a technician can take its commit step
\* whatever the other callers are doing, and an accepted commit writes the
\* technician the call chose when it read, whatever the store holds by then.
C19_NoLockAcrossWindow ==
  [][\A c \in Callers :
       /\ calls[c].pc = "decided" => ENABLED AssignCommit(c)
       /\ (calls[c].pc = "decided" /\ calls'[c].pc = "done" /\ calls'[c].ok) =>
            /\ tickets'[calls[c].ticket].status = "assigned"
            /\ tickets'[calls[c].ticket].assigned_to = calls[c].tech]_vars

\* the store with ticket r back in the queue
Requeued(r) ==
  [tickets EXCEPT ![r] = [@ EXCEPT !.status = "new", !.assigned_to = NULL]]

\* two calls of assign for two tickets that waited for a technician have
\* both chosen and committed the same technician, and whichever of the two
\* had run after the other had finished would have chosen another one
C19_Witness ==
  \E c, d \in Callers :
    /\ c # d
    /\ \A x \in {c, d} :
         /\ calls[x].op = "assign" /\ calls[x].pc = "done" /\ calls[x].ok
         /\ calls[x].old_assigned_to = NULL
         /\ tickets[calls[x].ticket].assigned_to = calls[x].tech
    /\ calls[c].ticket # calls[d].ticket
    /\ calls[c].tech = calls[d].tech
    /\ \A x \in {c, d} :
         find_least_busy_technician(Requeued(calls[x].ticket), now,
           calls[x].priority, "none", {}).technician # calls[x].tech
\* ------------------------------------------------------ the weighted scorer
\* the rows a technician's score is read over: a ticket of any priority in
\* any status that has or had an assignee, and a new ticket nobody has
ScoreRows ==
  {NoTicket, [NoTicket EXCEPT !.status = "new"]}
  \cup {[NoTicket EXCEPT !.status = s, !.assigned_to = u, !.priority = p] :
          s \in HELP_REQUEST_STATUSES, u \in Techs,
          p \in HELP_REQUEST_PRIORITIES}

InitScore ==
  /\ role = [u \in Techs |-> IF u = 1 THEN "support_technician"
                              ELSE "super_admin"]
  /\ active = [u \in Techs |-> TRUE]
  /\ tickets \in [TicketIds -> ScoreRows]
  /\ now = 0
  /\ last = NoCall
  /\ calls = [c \in Callers |-> IdleCall]

\* calculate_technician_workload called for one technician at any time from
\* now on; its SELECT can fail.  The step keeps, next to the score it read,
\* the read made just before it when that was of the same technician.
Score ==
  \E technician_id \in Techs, later \in now .. MaxNow, wfail \in SUBSET Techs :
    /\ wfail \subseteq {technician_id}
    /\ now' = later
    /\ last' = [NoCall EXCEPT
                  !.op = "score", !.tech = technician_id, !.wfail = wfail,
                  !.count = calculate_technician_workload(tickets, later,
                                                          technician_id, wfail),
                  !.steps = IF last.op = "score" /\ last.tech = technician_id
                            THEN <<[at |-> now, count |-> last.count,
                                    wfail |-> last.wfail]>>
                            ELSE <<>>]
    /\ UNCHANGED <<role, active, tickets, calls>>

NextScore ==
  Score

SpecScore ==
  InitScore /\ [][NextScore]_vars

\* the weights of the scorer as the specification states them, in units of
\* 1/ScoreScale: priority weight times twice the status weight times ten
\* times the time factor 1 + hours / 10
StatedWeight(t, clock) ==
  (CASE t.priority = "urgent" -> 4
     [] t.priority = "medium" -> 2
     [] t.priority = "low" -> 1
     [] t.priority = "high" -> 1)
  * (IF t.status = "assigned" THEN 2 ELSE 1)
  * (10 + (clock - t.updated_at))

\* C21: a score read without a failure is the sum, over exactly the tickets
\* assigned to the technician in status assigned or blocked, of priority
\* weight (urgent 4, medium 2, low 1, high 1) times status weight (assigned
\* 1, blocked 1/2) times the time factor 1 + hours / 10; tickets in new or
\* solved add nothing, and a technician with no such ticket scores 0.
C21_WeightedSum ==
  (last.op = "score" /\ last.wfail = {}) =>
    /\ last.count =
         SumOver([r \in DOMAIN tickets |->
                    IF tickets[r].assigned_to = last.tech
                       /\ tickets[r].status \in {"assigned", "blocked"}
                    THEN StatedWeight(tickets[r], now) ELSE 0],
                 DOMAIN tickets)
    /\ (\A r \in DOMAIN tickets :
          tickets[r].assigned_to = last.tech
            => tickets[r].status \notin {"assigned", "blocked"})
         => last.count = 0

\* a blocked high ticket an hour old is scored next to a solved ticket of the
\* same technician: 1 * 1/2 * 1.1
C21_Witness ==
  /\ last.op = "score" /\ last.wfail = {} /\ now = 1
  /\ \E r, q \in DOMAIN tickets :
       /\ tickets[r].assigned_to = last.tech /\ tickets[r].status = "blocked"
       /\ tickets[r].priority = "high"
       /\ tickets[q].assigned_to = last.tech /\ tickets[q].status = "solved"
  /\ last.count = 10 + 1

\* two reads of the same technician, both without a failure, the second
\* later than the first; the tickets do not change between them
LaterRead ==
  /\ last.op = "score" /\ last.wfail = {}
  /\ last.steps # <<>>
  /\ last.steps[1].wfail = {}
  /\ last.steps[1].at < now

\* C22 as stated: with the tickets of a technician held fixed, a score read
\* at a later time is strictly greater than one read earlier.
C22_StrictlyIncreasing ==
  LaterRead => last.count > last.steps[1].count

\* C22: with the tickets of a technician held fixed, a score read at a later
\* time is strictly greater than one read earlier when the technician has an
\* assigned or blocked ticket, and both scores are 0 when there is none.
C22_IncreasingWhenLoaded ==
  LaterRead =>
    IF \E r \in DOMAIN tickets :
         /\ tickets[r].assigned_to = last.tech
         /\ tickets[r].status \in {"assigned", "blocked"}
    THEN last.count > last.steps[1].count
    ELSE last.count = 0 /\ last.steps[1].count = 0

\* the second of two reads of a technician who has an assigned ticket, an
\* hour after the first
C22_Witness ==
  /\ LaterRead
  /\ last.steps[1].count >= ScoreScale
  /\ last.count > last.steps[1].count
  /\ \E r \in DOMAIN tickets :
       /\ tickets[r].assigned_to = last.tech
       /\ tickets[r].status = "assigned"

\* C23: a failure of the create_noti calls of a transition is not a failure
\* of the transition: a transition the table allows, on a ticket that
\* exists, still returns success and its status and assigned_to are in the
\* store; and an assign whose transition is allowed still returns true, the
\* technician and its message, the ticket being assigned to that technician.
C23_NotifyFireAndForget ==
  [][/\ (/\ last'.op = "transition" /\ last'.fault = "notify"
          /\ tickets[last'.ticket].status # "none"
          /\ (\/ last'.status = tickets[last'.ticket].status
              \/ <<tickets[last'.ticket].status, last'.status>>
                   \in LegalTable))
         => /\ last'.ok
            /\ tickets'[last'.ticket].status = last'.status
            /\ tickets'[last'.ticket].assigned_to = last'.tech
     /\ \A request_id \in DOMAIN tickets, priority \in PriorityInputs :
          (/\ AssignWith(request_id, priority, "notify", {})
           /\ tickets[request_id].status \in {"new", "assigned", "blocked"}
           /\ EligiblePool(priority) # {})
          => /\ last'.ok /\ last'.msg = "Auto-assigned"
             /\ last'.tech \in EligiblePool(priority)
             /\ tickets'[request_id].status = "assigned"
             /\ tickets'[request_id].assigned_to = last'.tech]_vars

\* a transition that assigned the ticket although its notifications, one to
\* the technician and one to the owner, failed
C23_Witness ==
  /\ last.op = "transition" /\ last.fault = "notify" /\ last.ok
  /\ last.tech \in Techs
  /\ tickets[last.ticket].assigned_to = last.tech
  /\ tickets[last.ticket].status = "assigned"
  /\ \E n, m \in last.notes : n.user_id = last.tech /\ m.user_id = Owner

\* C24: a successful transition that moves assigned_to to a technician other
\* than the previous assignee calls create_noti for that technician with
\* force set; and when the ticket had another assignee before, it also calls
\* create_noti for the owner and for that previous assignee.
C24_AssignmentNotified ==
  [][(/\ last'.op = "transition" /\ last'.ok /\ last'.fault = "none"
      /\ last'.tech # NULL
      /\ tickets[last'.ticket].assigned_to # last'.tech)
     => LET previous == tickets[last'.ticket].assigned_to
        IN  /\ \E n \in last'.notes : n.user_id = last'.tech /\ n.force
            /\ previous # NULL =>
                 /\ \E n \in last'.notes : n.user_id = Owner
                 /\ \E n \in last'.notes : n.user_id = previous]_vars

\* C25: a transition is called with bypass_validation = True only for a
\* caller who is a super admin, and never on a solved ticket.
C25_BypassOnlySuperAdmin ==
  [][last'.bypass =>
       /\ role[last'.caller] = "super_admin"
       /\ tickets[last'.ticket].status # "solved"]_vars

\* C26: a bulk_simple_assign run none of whose store calls fails takes every
\* unassigned unsolved ticket once and gives it to the technician of the
\* pool of the ticket's priority who has the fewest assigned or blocked
\* tickets in the store at that turn, the assignments made earlier in the
\* run counted, the lowest id among equals; a ticket whose pool is empty is
\* left as it was.
C26_BulkSimpleFreshCounts ==
  [][BulkSimpleAssignWith("none", 1, {}) =>
       LET steps == last'.steps
           backlog == {r \in DOMAIN tickets :
                         /\ tickets[r].assigned_to = NULL
                         /\ tickets[r].status \notin {"none", "solved"}}
           CountAt(i, u) ==
             Cardinality({r \in DOMAIN tickets :
                            /\ tickets[r].assigned_to = u
                            /\ tickets[r].status \in {"assigned", "blocked"}})
             + Cardinality({j \in 1 .. (i - 1) :
                              steps[j].ok /\ steps[j].tech = u})
       IN  /\ {steps[i].ticket : i \in DOMAIN steps} = backlog
           /\ Len(steps) = Cardinality(backlog)
           /\ \A i \in DOMAIN steps :
                LET r == steps[i].ticket
                    T == steps[i].tech
                    pool == EligiblePool(tickets[r].priority)
                IN  IF pool = {}
                    THEN ~steps[i].ok /\ tickets'[r] = tickets[r]
                    ELSE /\ steps[i].ok /\ T \in pool
                         /\ \A u \in pool :
                              \/ CountAt(i, T) < CountAt(i, u)
                              \/ CountAt(i, T) = CountAt(i, u) /\ T <= u
                         /\ tickets'[r].status = "assigned"
                         /\ tickets'[r].assigned_to = T]_vars

\* a run over three tickets between two idle technicians: the first ticket
\* goes to technician 1, the second to technician 2 because the first is
\* already counted, the third to technician 1 again
C26_Witness ==
  /\ last.op = "bulk_simple_assign" /\ last.wfail = {} /\ last.failed = {}
  /\ Len(last.steps) = 3
  /\ \A i \in 1 .. 3 : last.steps[i].ok
  /\ last.steps[1].tech = 1 /\ last.steps[2].tech = 2
  /\ last.steps[3].tech = 1

\* C27: when a creation none of whose store calls fails returns, the ticket
\* has the priority it was created with and no other ticket has changed;
\* created with a priority other than high while an active technician
\* exists, it is assigned to the active technician with the fewest assigned
\* or blocked tickets, the lowest id among equals; created with priority
\* high, or with no active technician, it is new and unassigned as inserted.
C27_CreatedThenAutoAssigned ==
  [][\A request_id \in DOMAIN tickets, priority \in PriorityInputs :
       CreateWith(request_id, priority, "none", {}) =>
         LET t == tickets'[request_id]
             pool == {u \in Techs : active[u] /\ role[u] \in Roles}
             Count(u) ==
               Cardinality({r \in DOMAIN tickets :
                              /\ tickets[r].assigned_to = u
                              /\ tickets[r].status \in {"assigned", "blocked"}})
         IN  /\ t.priority = priority
             /\ \A r \in DOMAIN tickets \ {request_id} :
                  tickets'[r] = tickets[r]
             /\ IF priority # "high" /\ pool # {}
                THEN /\ t.status = "assigned"
                     /\ t.assigned_to \in pool
                     /\ \A u \in pool :
                          \/ Count(t.assigned_to) < Count(u)
                          \/ Count(t.assigned_to) = Count(u)
                             /\ t.assigned_to <= u
                ELSE t.status = "new" /\ t.assigned_to = NULL]_vars

\* a second ticket created while technician 1 holds the first: it goes to
\* technician 2
C27_Witness ==
  /\ last.op = "create" /\ last.ticket = 2
  /\ active[1] /\ active[2]
  /\ tickets[1].status = "assigned" /\ tickets[1].assigned_to = 1
  /\ tickets[2].status = "assigned" /\ tickets[2].assigned_to = 2
  /\ tickets[2].priority = "medium"

\* C28: a ticket whose status is assigned or blocked has an assignee, and a
\* ticket whose status is new has none.
C28_StatusMatchesAssignee ==
  \A r \in DOMAIN tickets :
    /\ tickets[r].status \in {"assigned", "blocked"}
         => tickets[r].assigned_to # NULL
    /\ tickets[r].status = "new" => tickets[r].assigned_to = NULL

\* the assigners and the two routes by which staff assign a ticket or change
\* its priority
NextRoutes ==
  \/ Create
  \/ Assign
  \/ Distribute
  \/ BulkSimpleAssign
  \/ Take
  \/ UpdateStatus

SpecRoutes ==
  Init /\ [][NextRoutes]_vars

\* C30: no ticket of priority high is assigned or blocked in the hands of a
\* support technician.
C30_HighNeverWithSupportTechnician ==
  \A r \in DOMAIN tickets :
    (/\ tickets[r].priority = "high"
     /\ tickets[r].status \in {"assigned", "blocked"}
     /\ tickets[r].assigned_to # NULL)
    => role[tickets[r].assigned_to] # "support_technician"

\* --------------------------------------------- callers racing for a ticket
\* active technicians of any role and a store in which every ticket is new
\* and waits for a technician, every caller idle
InitRace ==
  /\ role \in [Techs -> Roles]
  /\ active = [u \in Techs |-> TRUE]
  /\ tickets \in [TicketIds ->
                    {[NoTicket EXCEPT !.status = "new", !.priority = p] :
                       p \in PriorityInputs}]
  /\ now = 0
  /\ last = NoCall
  /\ calls = [c \in Callers |-> IdleCall]

\* take_request up to its call of update_help_request_status: the row is
\* read and the assignee, the priority and the status are checked
TakeRead(c) ==
  \E request_id \in DOMAIN tickets, current_user_id \in Staff :
    /\ calls[c].pc = "idle"
    /\ LET request == tickets[request_id]
           refused ==
             \/ request.status = "none"
             \/ request.assigned_to # NULL
                /\ request.assigned_to # current_user_id
             \/ request.priority = "high"
                /\ role[current_user_id] # "super_admin"
             \/ ~is_valid_status_transition(request.status, "assigned")
       IN  calls' = [calls EXCEPT ![c] =
             [IdleCall EXCEPT !.op = "take", !.ticket = request_id,
                !.tech = current_user_id,
                !.pc = IF refused THEN "done" ELSE "taking"]]
    /\ last' = [NoCall EXCEPT !.op = "take_read", !.caller = c]
    /\ UNCHANGED <<role, active, tickets, now>>

\* the rest of take_request: the transition to assigned
TakeCommit(c) ==
  /\ calls[c].pc = "taking"
  /\ \E r \in {update_help_request_status(tickets, now, calls[c].ticket,
                   "assigned", calls[c].tech, None, FALSE, "none")} :
        /\ tickets' = r.tickets
        /\ calls' = [calls EXCEPT ![c].pc = "done", ![c].ok = r.ok,
                                  ![c].old_assigned_to =
                                    tickets[calls[c].ticket].assigned_to]
  /\ last' = [NoCall EXCEPT !.op = "take_commit", !.caller = c]
  /\ UNCHANGED <<role, active, now>>

NextRace ==
  \E c \in Callers :
    \/ AssignRead(c)
    \/ AssignCommit(c)
    \/ TakeRead(c)
    \/ TakeCommit(c)

SpecRace ==
  InitRace /\ [][NextRace]_vars

\* C29: when the calls of the callers (assign or take) have completed, at
\* most one of those made for the same ticket, which was new when they
\* started, has returned success, and the ticket is assigned to the
\* technician of every call that has.
C29_OneWinner ==
  (\A c \in Callers : calls[c].pc \in {"idle", "done"}) =>
    \A r \in DOMAIN tickets :
      LET racers == {c \in Callers : calls[c].pc = "done"
                                     /\ calls[c].ticket = r}
      IN  /\ Cardinality({c \in racers : calls[c].ok}) <= 1
          /\ \A c \in racers :
               calls[c].ok => tickets[r].assigned_to = calls[c].tech

====
